---- MODULE Spec2Model ----
(***************************************************************************)
(* A model of hacks/aws-s3-art-srv-enterprise-signed-cookie/               *)
(* generate_cookie.py: the CloudFrontUtil class (constructor, signed URL,  *)
(* signed cookies) and the script's __main__ block.                        *)
(*                                                                         *)
(* Text is a sequence of one-character strings, bytes are a sequence of    *)
(* integers 0..255. The calls into botocore's CloudFrontSigner, into       *)
(* base64 and json are modelled by what those libraries compute. rsa.sign  *)
(* is modelled at toy size: a one-byte digest stands for the 20-byte SHA-1 *)
(* digest and textbook RSA on a small modulus for PKCS#1 v1.5.             *)
(***************************************************************************)
EXTENDS Integers, Sequences, FiniteSets, TLC

VARIABLES
    mode,       \* "script": run as __main__ (line 54); "library": imported
    fs,         \* the key files on disk: path -> what the file holds
    ctor,       \* the CloudFrontUtil(...) call: its arguments, position, error
    key_id,     \* self.key_id
    rsa_signer, \* self.rsa_signer: the partial application of rsa.sign
    cf_signer,  \* self.cf_signer: the CloudFrontSigner
    frames,     \* one frame per thread: the method being run and its locals
    main,       \* the __main__ block: position, locals, exit status
    http,       \* the requests sent by requests.get
    stdout,     \* what has been printed
    enc_in,     \* the encoder on its own: the bytes given
    enc_out     \* the encoder on its own: the text returned

vars == <<mode, fs, ctor, key_id, rsa_signer, cf_signer, frames, main, http,
          stdout, enc_in, enc_out>>

\* Python's None, where a datetime, an object or an outcome is expected.
None == [none |-> TRUE]

\* What no statement of the program assigns.
env == <<mode, fs, enc_in, enc_out>>

\* The fields of the CloudFrontUtil.
self == <<key_id, rsa_signer, cf_signer>>

-----------------------------------------------------------------------------
(* Text and bytes *)

\* The printable ASCII characters, code 32 to 126, in code order (code 96,
\* the grave accent, cannot be written as a TLA+ string and is named).
Ascii ==
    << " ", "!", "\"", "#", "$", "%", "&", "'", "(", ")", "*", "+", ",", "-",
       ".", "/", "0", "1", "2", "3", "4", "5", "6", "7", "8", "9", ":", ";",
       "<", "=", ">", "?", "@", "A", "B", "C", "D", "E", "F", "G", "H", "I",
       "J", "K", "L", "M", "N", "O", "P", "Q", "R", "S", "T", "U", "V", "W",
       "X", "Y", "Z", "[", "\\", "]", "^", "_", "grave", "a", "b", "c", "d", "e",
       "f", "g", "h", "i", "j", "k", "l", "m", "n", "o", "p", "q", "r", "s",
       "t", "u", "v", "w", "x", "y", "z", "{", "|", "}", "~" >>

Ord(c) == 31 + (CHOOSE i \in 1..Len(Ascii) : Ascii[i] = c)

Chr(n) == Ascii[n - 31]

\* str.encode('utf8') on ASCII text: one byte per character.
encode(s) == LET t == CHOOSE x \in {s} : TRUE IN [i \in 1..Len(t) |-> Ord(t[i])]

\* bytes.decode('utf8') on ASCII bytes.
decode(b) == [i \in 1..Len(b) |-> Chr(b[i])]

RECURSIVE Digits(_)
\* str(n) / '%s' % n for n >= 0: decimal, no leading zeros.
Digits(n) ==
    IF n < 10 THEN << Ascii[17 + n] >>
    ELSE Append(Digits(n \div 10), Ascii[17 + (n % 10)])

\* sep.join(parts)
RECURSIVE Join(_, _)
Join(sep, parts) ==
    IF parts = << >> THEN << >>
    ELSE IF Len(parts) = 1 THEN parts[1]
    ELSE parts[1] \o sep \o Join(sep, Tail(parts))

Contains(s, c) == \E i \in 1..Len(s) : s[i] = c

\* str.strip(): leading and trailing whitespace removed.
RECURSIVE LStrip(_)
LStrip(s) == IF s # << >> /\ Head(s) = " " THEN LStrip(Tail(s)) ELSE s

RECURSIVE RStrip(_)
RStrip(s) ==
    IF s # << >> /\ s[Len(s)] = " " THEN RStrip(SubSeq(s, 1, Len(s) - 1))
    ELSE s

strip(s) == RStrip(LStrip(s))

-----------------------------------------------------------------------------
(* base64 and CloudFrontSigner._url_b64encode (called at lines 43 and 46) *)

B64Alphabet ==
    << "A", "B", "C", "D", "E", "F", "G", "H", "I", "J", "K", "L", "M", "N",
       "O", "P", "Q", "R", "S", "T", "U", "V", "W", "X", "Y", "Z", "a", "b",
       "c", "d", "e", "f", "g", "h", "i", "j", "k", "l", "m", "n", "o", "p",
       "q", "r", "s", "t", "u", "v", "w", "x", "y", "z", "0", "1", "2", "3",
       "4", "5", "6", "7", "8", "9", "+", "/" >>

B64(i) == Ord(B64Alphabet[i + 1])

\* The 6-bit group g (from 0) of data, short groups filled with zero bits.
Sextet(data, g) ==
    LET i  == 3 * (g \div 4) + 1
        b0 == data[i]
        b1 == IF i + 1 <= Len(data) THEN data[i + 1] ELSE 0
        b2 == IF i + 2 <= Len(data) THEN data[i + 2] ELSE 0
    IN  CASE g % 4 = 0 -> b0 \div 4
          [] g % 4 = 1 -> (b0 % 4) * 16 + b1 \div 16
          [] g % 4 = 2 -> (b1 % 16) * 4 + b2 \div 64
          [] OTHER     -> b2 % 64

\* base64.b64encode: three bytes become four characters; a group that holds
\* no bit of the data is written "=".
b64encode(data) ==
    LET n == Len(data)
    IN  [j \in 1..(4 * ((n + 2) \div 3)) |->
            IF 6 * (j - 1) >= 8 * n THEN Ord("=")
            ELSE B64(Sextet(data, j - 1))]

\* bytes.replace(old, new) for one-byte old and new.
replace(b, old, new) == [i \in 1..Len(b) |-> IF b[i] = old THEN new ELSE b[i]]

\* A mutant of _url_b64encode: base64.urlsafe_b64encode's substitutions.
urlsafe_b64encode(data) ==
    replace(replace(b64encode(data), Ord("+"), Ord("-")), Ord("/"), Ord("_"))

_url_b64encode(data) ==
    replace(replace(replace(b64encode(data), Ord("+"), Ord("-")),
                    Ord("="), Ord("_")),
            Ord("/"), Ord("~"))

\* self.cf_signer._url_b64encode(x).decode('utf8')
Encode(data) == decode(_url_b64encode(data))

-----------------------------------------------------------------------------
(* Outcomes of a call: a returned value or a raised exception *)

Return(v) == [kind |-> "return", value |-> v, error |-> "-"]

Raise(e) == [kind |-> "raise", value |-> << >>, error |-> e]

-----------------------------------------------------------------------------
(* CloudFrontSigner.build_policy (called at line 42, and by the signer's    *)
(* generate_presigned_url called at line 39)                                *)

PolicyHead ==
    << "{", "\"", "S", "t", "a", "t", "e", "m", "e", "n", "t", "\"", ":",
       "[", "{", "\"", "R", "e", "s", "o", "u", "r", "c", "e", "\"", ":" >>

PolicyMid ==
    << ",", "\"", "C", "o", "n", "d", "i", "t", "i", "o", "n", "\"", ":",
       "{", "\"", "D", "a", "t", "e", "L", "e", "s", "s", "T", "h", "a",
       "n", "\"", ":", "{", "\"", "A", "W", "S", ":", "E", "p", "o", "c",
       "h", "T", "i", "m", "e", "\"", ":" >>

PolicyTail ==
    << "}", "}", "}", "]", "}" >>

RECURSIVE JsonEscapeRange(_, _, _)
JsonEscapeRange(s, lo, hi) ==
    IF lo > hi THEN << >>
    ELSE IF lo = hi THEN
        (IF s[lo] \in {"\"", "\\"} THEN << "\\", s[lo] >> ELSE << s[lo] >>)
    ELSE JsonEscapeRange(s, lo, (lo + hi) \div 2)
         \o JsonEscapeRange(s, (lo + hi) \div 2 + 1, hi)

\* json.dumps of the characters of a str: the quote and the backslash are escaped.
JsonEscape(s) == JsonEscapeRange(s, 1, Len(s))

JsonString(s) == << "\"" >> \o JsonEscape(s) \o << "\"" >>

\* int(datetime2timestamp(dt)): whole seconds since the epoch, the
\* microseconds dropped. A datetime is [epoch, microsecond].
EpochTime(dt) == dt.epoch

\* json.dumps({"Statement": [{"Resource": resource, "Condition":
\* {"DateLessThan": {"AWS:EpochTime": moment}}}]}, separators=(',', ':')).
\* There is no check of the resource. None has no tzinfo: AttributeError.
build_policy(resource, date_less_than) ==
    IF date_less_than = None THEN Raise("AttributeError")
    ELSE Return(PolicyHead \o JsonString(resource) \o PolicyMid
                \o Digits(EpochTime(date_less_than)) \o PolicyTail)

-----------------------------------------------------------------------------
(* rsa.sign(message, priv_key, 'SHA-1'), bound at lines 31-33 *)

RECURSIVE byte_size(_)
byte_size(n) == IF n < 256 THEN 1 ELSE 1 + byte_size(n \div 256)

RECURSIVE PowMod(_, _, _)
PowMod(b, e, n) ==
    IF e = 0 THEN 1 % n
    ELSE IF e % 2 = 0 THEN PowMod((b * b) % n, e \div 2, n)
    ELSE (b * PowMod((b * b) % n, e \div 2, n)) % n

RECURSIVE int2bytes(_, _)
\* The big-endian bytes of number, fill_size of them.
int2bytes(number, fill_size) ==
    IF fill_size = 0 THEN << >>
    ELSE Append(int2bytes(number \div 256, fill_size - 1), number % 256)

RECURSIVE HashRange(_, _, _)
HashRange(message, lo, hi) ==
    IF lo > hi THEN 0
    ELSE IF lo = hi THEN ((lo % 13) + 1) * message[lo]
    ELSE HashRange(message, lo, (lo + hi) \div 2)
         + HashRange(message, (lo + hi) \div 2 + 1, hi)

\* The digest of the message: one byte here, a position-weighted checksum.
compute_hash(message) == (7 + HashRange(message, 1, Len(message))) % 251

\* The digest is padded to the key's length, which raises OverflowError when
\* the key is too short for digest and padding; the padded block is raised
\* to the private exponent and written as bytes of the key's length.
rsa_sign(message, priv_key, hash_method) ==
    LET keylength == byte_size(priv_key.n)
        digest    == CHOOSE h \in {compute_hash(message)} : TRUE
        payload   == 256 + digest
    IN  IF keylength < 2 THEN Raise("OverflowError")
        ELSE Return(int2bytes(PowMod(payload, priv_key.d, priv_key.n),
                              keylength))

\* functools.partial(rsa.sign, priv_key=priv_key, hash_method='SHA-1')
partial_sign(priv_key) == [priv_key |-> priv_key, hash_method |-> "SHA-1"]

\* self.rsa_signer(message)
call_signer(signer, message) ==
    rsa_sign(message, signer.priv_key, signer.hash_method)

-----------------------------------------------------------------------------
(* CloudFrontSigner: built at line 34, its generate_presigned_url called at *)
(* line 39 with date_less_than only                                         *)

ExpiresEq ==
    << "E", "x", "p", "i", "r", "e", "s", "=" >>

SignatureEq ==
    << "S", "i", "g", "n", "a", "t", "u", "r", "e", "=" >>

KeyPairIdEq ==
    << "K", "e", "y", "-", "P", "a", "i", "r", "-", "I", "d", "=" >>

PolicyEq ==
    << "P", "o", "l", "i", "c", "y", "=" >>

CloudFrontSigner(kid, signer) == [key_id |-> kid, rsa_signer |-> signer]

\* base_url + ('&' if '?' in base_url else '?') + '&'.join(extra_params)
_build_url(base_url, extra_params) ==
    base_url \o (IF Contains(base_url, "?") THEN << "&" >> ELSE << "?" >>)
             \o Join(<< "&" >>, extra_params)

\* The signer's generate_presigned_url(url, date_less_than=expire_at): no
\* policy is given, so the canned form is produced. With no date either it
\* raises ValueError. The policy is built for signing only; the parameters
\* are Expires, Signature and Key-Pair-Id.
signer_generate_presigned_url(signer, url, date_less_than) ==
    IF date_less_than = None THEN Raise("ValueError")
    ELSE
        LET policy == encode(build_policy(url, date_less_than).value)
            signed == call_signer(signer.rsa_signer, policy)
        IN  IF signed.kind = "raise" THEN signed
            ELSE Return(_build_url(url,
                    << ExpiresEq \o Digits(EpochTime(date_less_than)),
                       SignatureEq \o Encode(signed.value),
                       KeyPairIdEq \o signer.key_id >>))

-----------------------------------------------------------------------------
(* The inputs *)

NThreads == 2

MaxLen == 3

Threads == 1..NThreads

\* rsa.PrivateKey values: one of usual proportions, one too short to sign.
GoodKey == [n |-> 3233, e |-> 17, d |-> 2753]

ShortKey == [n |-> 187, e |-> 7, d |-> 23]

\* What open(path, 'rb') finds. "missing.pem" is no file.
Files ==
    [p \in {"good.pem", "short.pem", "garbage.pem"} |->
        CASE p = "good.pem"  -> [pkcs1 |-> TRUE, key |-> GoodKey]
          [] p = "short.pem" -> [pkcs1 |-> TRUE, key |-> ShortKey]
          [] OTHER           -> [pkcs1 |-> FALSE, key |-> None]]

Paths == {"good.pem", "short.pem", "garbage.pem", "missing.pem"}

\* Key identifiers; the second holds characters an encoder or a trim would change.
KeyIds == { << "K", "1" >>, << " ", "K", "+", "/", "=", " " >> }

\* Resources: the empty string, a wildcard pattern, a URL with a query and a quote.
Urls ==
    { << >>,
      << "h", ":", "/", "/", "d", "/", "*" >>,
      << "h", ":", "/", "/", "d", "/", "a", "?", "q", "=", "\"" >> }

\* A datetime is [epoch, microsecond].
Expiry == [epoch |-> 2000000001, microsecond |-> 500000]

\* The arguments of a method call: every resource with an expiry, and one
\* call by a careless caller who gives None for the datetime.
Requests ==
    { [url |-> u, expire_at |-> Expiry] : u \in Urls }
    \cup { [url |-> << "h", ":", "/", "/", "d", "/", "*" >>, expire_at |-> None] }

\* The bytes the encoder is tried on by itself: they put every character of
\* the base64 alphabet's tail ("+", "/") at every place of a group.
ByteValues == {0, 62, 63, 77, 190, 239, 251, 255}

RECURSIVE SeqsUpTo(_, _)
SeqsUpTo(S, n) ==
    IF n = 0 THEN { << >> }
    ELSE LET shorter == SeqsUpTo(S, n - 1)
         IN  shorter \cup { Append(q, x) : q \in shorter, x \in S }

-----------------------------------------------------------------------------
(* CloudFrontUtil.__init__, lines 20-34 *)

NoCtor ==
    [pc |-> "idle", private_key_path |-> "-", key_id |-> << >>,
     priv_key |-> None, error |-> "-"]

\* The call CloudFrontUtil(private_key_path, key_id) is made.
New(path, kid) ==
    /\ ctor.pc = "idle"
    /\ ctor' = [NoCtor EXCEPT !.pc = "L25", !.private_key_path = path,
                              !.key_id = kid]

\* A mutant of Init25: the key_id is trimmed before it is stored.
Init25_Stripped ==
    /\ ctor.pc = "L25"
    /\ key_id' = strip(ctor.key_id)
    /\ ctor' = [ctor EXCEPT !.pc = "L27"]
    /\ UNCHANGED <<rsa_signer, cf_signer>>
    /\ UNCHANGED <<env, frames, main, http, stdout>>

\* self.key_id = key_id
Init25 ==
    /\ ctor.pc = "L25"
    /\ key_id' = ctor.key_id
    /\ ctor' = [ctor EXCEPT !.pc = "L27"]
    /\ UNCHANGED <<rsa_signer, cf_signer>>
    /\ UNCHANGED <<env, frames, main, http, stdout>>

\* with open(private_key_path, 'rb') as fp:
\*     priv_key = rsa.PrivateKey.load_pkcs1(fp.read())
Init27 ==
    /\ ctor.pc = "L27"
    /\ ctor' =
          IF ctor.private_key_path \notin DOMAIN fs
          THEN [ctor EXCEPT !.pc = "raised", !.error = "FileNotFoundError"]
          ELSE IF ~fs[ctor.private_key_path].pkcs1
          THEN [ctor EXCEPT !.pc = "raised", !.error = "ValueError"]
          ELSE [ctor EXCEPT !.pc = "L31",
                            !.priv_key = fs[ctor.private_key_path].key]
    /\ UNCHANGED <<self, env, frames, main, http, stdout>>

\* self.rsa_signer = functools.partial(rsa.sign, priv_key=priv_key,
\*                                     hash_method='SHA-1')
Init31 ==
    /\ ctor.pc = "L31"
    /\ rsa_signer' = partial_sign(ctor.priv_key)
    /\ ctor' = [ctor EXCEPT !.pc = "L34"]
    /\ UNCHANGED <<key_id, cf_signer>>
    /\ UNCHANGED <<env, frames, main, http, stdout>>

\* self.cf_signer = CloudFrontSigner(key_id, self.rsa_signer)
Init34 ==
    /\ ctor.pc = "L34"
    /\ cf_signer' = CloudFrontSigner(ctor.key_id, rsa_signer)
    /\ ctor' = [ctor EXCEPT !.pc = "done"]
    /\ UNCHANGED <<key_id, rsa_signer>>
    /\ UNCHANGED <<env, frames, main, http, stdout>>

-----------------------------------------------------------------------------
(* The two methods, lines 36-51. A frame holds a call's arguments and locals. *)

IdleFrame ==
    [op |-> "none", pc |-> "idle", url |-> << >>, expire_at |-> None,
     policy |-> << >>, policy_64 |-> << >>, signature |-> << >>,
     signature_64 |-> << >>, outcome |-> None]

CloudFrontPolicy ==
    << "C", "l", "o", "u", "d", "F", "r", "o", "n", "t", "-", "P", "o",
       "l", "i", "c", "y" >>

CloudFrontSignature ==
    << "C", "l", "o", "u", "d", "F", "r", "o", "n", "t", "-", "S", "i",
       "g", "n", "a", "t", "u", "r", "e" >>

CloudFrontKeyPairId ==
    << "C", "l", "o", "u", "d", "F", "r", "o", "n", "t", "-", "K", "e",
       "y", "-", "P", "a", "i", "r", "-", "I", "d" >>

\* A method is called on the constructed object: a fresh frame.
Invoke(t, op, url, expire_at) ==
    /\ ctor.pc = "done"
    /\ frames[t].pc \in {"idle", "returned", "raised"}
    /\ frames' = [frames EXCEPT ![t] =
          [IdleFrame EXCEPT !.op = op,
                            !.pc = IF op = "generate_presigned_url"
                                   THEN "L39" ELSE "L42",
                            !.url = url, !.expire_at = expire_at]]

\* A mutant of Raised: the exception is caught and what was computed so far
\* is returned.
Raised_ReturnsPartial(f, r) ==
    [f EXCEPT !.pc = "returned",
              !.outcome = Return(<< [name |-> CloudFrontPolicy,
                                     value |-> f.policy_64] >>)]

\* The frame after a statement whose call came back with outcome r: an
\* exception leaves the method at once, nothing catches it.
Raised(f, r) == [f EXCEPT !.pc = "raised", !.outcome = r]

\* A mutant of L39: the policy is passed to the signer, which then writes
\* the custom form, with a Policy parameter.
L39_CustomPolicy(t) ==
    /\ frames[t].pc = "L39"
    /\ LET f  == frames[t]
           bp == build_policy(f.url, f.expire_at)
           sg == call_signer(cf_signer.rsa_signer, encode(bp.value))
       IN  frames' = [frames EXCEPT ![t] =
              IF bp.kind = "raise" THEN [f EXCEPT !.pc = "raised", !.outcome = bp]
              ELSE IF sg.kind = "raise"
              THEN [f EXCEPT !.pc = "raised", !.outcome = sg]
              ELSE [f EXCEPT !.pc = "returned",
                      !.outcome = Return(_build_url(f.url,
                         << PolicyEq \o Encode(encode(bp.value)),
                            SignatureEq \o Encode(sg.value),
                            KeyPairIdEq \o cf_signer.key_id >>))]]
    /\ UNCHANGED <<self, env, ctor, main, http, stdout>>

\* return self.cf_signer.generate_presigned_url(url, date_less_than=expire_at)
L39(t) ==
    /\ frames[t].pc = "L39"
    /\ LET f == frames[t]
           r == signer_generate_presigned_url(cf_signer, f.url, f.expire_at)
       IN  frames' = [frames EXCEPT ![t] =
              IF r.kind = "raise" THEN Raised(f, r)
              ELSE [f EXCEPT !.pc = "returned", !.outcome = r]]
    /\ UNCHANGED <<self, env, ctor, main, http, stdout>>

\* A mutant of L42: the resource is validated first.
L42_Validating(t) ==
    /\ frames[t].pc = "L42"
    /\ LET f == frames[t]
           r == IF f.url = << >> THEN Raise("InvalidResource")
                ELSE build_policy(f.url, f.expire_at)
       IN  frames' = [frames EXCEPT ![t] =
              IF r.kind = "raise" THEN [f EXCEPT !.pc = "raised", !.outcome = r]
              ELSE [f EXCEPT !.pc = "L43", !.policy = encode(r.value)]]
    /\ UNCHANGED <<self, env, ctor, main, http, stdout>>

\* A mutant of L42: the policy is kept on the object, not in a local, so
\* every call under way sees the policy built last.
L42_PolicyOnSelf(t) ==
    /\ frames[t].pc = "L42"
    /\ LET f == frames[t]
           r == build_policy(f.url, f.expire_at)
       IN  frames' =
              IF r.kind = "raise"
              THEN [frames EXCEPT ![t] = [f EXCEPT !.pc = "raised", !.outcome = r]]
              ELSE [u \in Threads |->
                      IF u = t
                      THEN [f EXCEPT !.pc = "L43", !.policy = encode(r.value)]
                      ELSE IF frames[u].pc \in {"L43", "L45"}
                      THEN [frames[u] EXCEPT !.policy = encode(r.value)]
                      ELSE frames[u]]
    /\ UNCHANGED <<self, env, ctor, main, http, stdout>>

\* policy = self.cf_signer.build_policy(url, expire_at).encode('utf8')
L42(t) ==
    /\ frames[t].pc = "L42"
    /\ LET f == frames[t]
           r == build_policy(f.url, f.expire_at)
       IN  frames' = [frames EXCEPT ![t] =
              IF r.kind = "raise" THEN Raised(f, r)
              ELSE [f EXCEPT !.pc = "L43", !.policy = encode(r.value)]]
    /\ UNCHANGED <<self, env, ctor, main, http, stdout>>

\* policy_64 = self.cf_signer._url_b64encode(policy).decode('utf8')
L43(t) ==
    /\ frames[t].pc = "L43"
    /\ frames' = [frames EXCEPT ![t].pc = "L45",
                                ![t].policy_64 = Encode(frames[t].policy)]
    /\ UNCHANGED <<self, env, ctor, main, http, stdout>>

\* A mutant of L45: the encoded policy is signed, not the policy bytes.
L45_SignsEncodedPolicy(t) ==
    /\ frames[t].pc = "L45"
    /\ LET f == frames[t]
           r == call_signer(rsa_signer, encode(f.policy_64))
       IN  frames' = [frames EXCEPT ![t] =
              IF r.kind = "raise" THEN [f EXCEPT !.pc = "raised", !.outcome = r]
              ELSE [f EXCEPT !.pc = "L46", !.signature = r.value]]
    /\ UNCHANGED <<self, env, ctor, main, http, stdout>>

\* signature = self.rsa_signer(policy)
L45(t) ==
    /\ frames[t].pc = "L45"
    /\ LET f == frames[t]
           r == call_signer(rsa_signer, f.policy)
       IN  frames' = [frames EXCEPT ![t] =
              IF r.kind = "raise" THEN Raised(f, r)
              ELSE [f EXCEPT !.pc = "L46", !.signature = r.value]]
    /\ UNCHANGED <<self, env, ctor, main, http, stdout>>

\* signature_64 = self.cf_signer._url_b64encode(signature).decode('utf8')
L46(t) ==
    /\ frames[t].pc = "L46"
    /\ frames' = [frames EXCEPT ![t].pc = "L47",
                                ![t].signature_64 = Encode(frames[t].signature)]
    /\ UNCHANGED <<self, env, ctor, main, http, stdout>>

\* A mutant of L47: the key identifier is left out of the mapping.
L47_WithoutKeyPairId(t) ==
    /\ frames[t].pc = "L47"
    /\ frames' = [frames EXCEPT ![t].pc = "returned",
          ![t].outcome = Return(
              << [name |-> CloudFrontPolicy, value |-> frames[t].policy_64],
                 [name |-> CloudFrontSignature,
                  value |-> frames[t].signature_64] >>)]
    /\ UNCHANGED <<self, env, ctor, main, http, stdout>>

\* return {"CloudFront-Policy": policy_64, "CloudFront-Signature":
\*         signature_64, "CloudFront-Key-Pair-Id": self.key_id}
\* The dict is a sequence of items in insertion order.
L47(t) ==
    /\ frames[t].pc = "L47"
    /\ frames' = [frames EXCEPT ![t].pc = "returned",
          ![t].outcome = Return(
              << [name |-> CloudFrontPolicy, value |-> frames[t].policy_64],
                 [name |-> CloudFrontSignature, value |-> frames[t].signature_64],
                 [name |-> CloudFrontKeyPairId, value |-> key_id] >>)]
    /\ UNCHANGED <<self, env, ctor, main, http, stdout>>

-----------------------------------------------------------------------------
(* The __main__ block, lines 54-96 *)

ART_CLOUDFRONT_DOMAIN ==
    << "h", "t", "t", "p", "s", ":", "/", "/", "d", "2", "j", "i", "e",
       "p", "z", "2", "f", "i", "8", "h", "g", "n", ".", "c", "l", "o",
       "u", "d", "f", "r", "o", "n", "t", ".", "n", "e", "t" >>

MainKeyId ==
    << "K", "3", "M", "7", "W", "L", "N", "2", "3", "I", "L", "4", "8",
       "K" >>

IndexHtml ==
    << "i", "n", "d", "e", "x", ".", "h", "t", "m", "l" >>

FlatHead ==
    << "s", "e", "t", " ", "$", "C", "L", "O", "U", "D", "F", "R", "O",
       "N", "T", "_", "S", "I", "G", "N", "E", "D", "_", "C", "O", "O",
       "K", "I", "E", "S", " ", "\"" >>

FlatTail ==
    << "\"", ";" >>

\* sys.argv: the script, then the key path, then the path to pull.
Argvs ==
    { << "generate_cookie.py" >> }
    \cup { << "generate_cookie.py", p >> : p \in Paths }
    \cup { << "generate_cookie.py", p, << "a", "/", "b", ".", "t", "x", "t" >> >> :
             p \in Paths }

\* datetime.now() when line 74 runs.
Nows ==
    { [epoch |-> 1000000000, microsecond |-> 0],
      [epoch |-> 1000000001, microsecond |-> 999999] }

\* dt + timedelta(days=days)
plus_days(dt, days) == [dt EXCEPT !.epoch = dt.epoch + days * 86400]

\* What requests.get comes back with: a response, or ConnectionError.
Responses == { Return([status_code |-> 200]), Return([status_code |-> 403]),
               Raise("ConnectionError") }

NoMain ==
    [pc |-> "none", argv |-> << >>, path |-> << >>, key_path |-> "-",
     private_key_path |-> "-", key_id |-> << >>, resource |-> << >>,
     expire_at |-> None, signed_cookies |-> << >>, url |-> << >>, r |-> None,
     content |-> << >>, i |-> 0, status |-> -1, error |-> "-"]

print(what, value) == stdout' = Append(stdout, [what |-> what, value |-> value])

\* exit(code)
exit(code) == [main EXCEPT !.pc = "exited", !.status = code]

\* An exception nothing catches ends the process: a traceback, status 1.
Crash(error) == [main EXCEPT !.pc = "crashed", !.status = 1, !.error = error]

\* if len(sys.argv) < 2: print(...); exit(1)
M55 ==
    /\ main.pc = "L55"
    /\ IF Len(main.argv) < 2
       THEN /\ print("syntax", << >>)
            /\ main' = exit(1)
       ELSE /\ main' = [main EXCEPT !.pc = "L61"]
            /\ UNCHANGED stdout
    /\ UNCHANGED <<env, self, ctor, frames, http>>

\* path = sys.argv[2] if len(sys.argv) > 2 else 'index.html'
M61 ==
    /\ main.pc = "L61"
    /\ main' = [main EXCEPT !.pc = "L66",
                  !.path = IF Len(main.argv) > 2 THEN main.argv[3]
                           ELSE IndexHtml]
    /\ UNCHANGED <<env, self, ctor, frames, http, stdout>>

\* A mutant of M66: the file is not looked for.
M66_NoExistsCheck ==
    /\ main.pc = "L66"
    /\ main' = [main EXCEPT !.pc = "L71", !.key_path = main.argv[2]]
    /\ UNCHANGED <<env, self, ctor, frames, http, stdout>>

\* key_path = pathlib.Path(sys.argv[1])
\* if not key_path.exists(): print(...); exit(1)
M66 ==
    /\ main.pc = "L66"
    /\ IF main.argv[2] \notin DOMAIN fs
       THEN /\ print("no file", << >>)
            /\ main' = [exit(1) EXCEPT !.key_path = main.argv[2]]
       ELSE /\ main' = [main EXCEPT !.pc = "L71", !.key_path = main.argv[2]]
            /\ UNCHANGED stdout
    /\ UNCHANGED <<env, self, ctor, frames, http>>

\* private_key_path, key_id, resource, expire_at: lines 71-74
M71 ==
    /\ main.pc = "L71"
    /\ \E now \in Nows :
          main' = [main EXCEPT !.pc = "L76",
                     !.private_key_path = main.key_path,
                     !.key_id = MainKeyId,
                     !.resource = ART_CLOUDFRONT_DOMAIN \o << "/", "*" >>,
                     !.expire_at = plus_days(now, 35 * 365)]
    /\ UNCHANGED <<env, self, ctor, frames, http, stdout>>

\* cfu = CloudFrontUtil(private_key_path, key_id): the call
M76 ==
    /\ main.pc = "L76"
    /\ New(main.private_key_path, main.key_id)
    /\ main' = [main EXCEPT !.pc = "L76 called"]
    /\ UNCHANGED <<env, self, frames, http, stdout>>

\* cfu = CloudFrontUtil(private_key_path, key_id): the constructor is back
M76back ==
    /\ main.pc = "L76 called"
    /\ ctor.pc \in {"done", "raised"}
    /\ main' = IF ctor.pc = "raised" THEN Crash(ctor.error)
               ELSE [main EXCEPT !.pc = "L79"]
    /\ UNCHANGED <<env, self, ctor, frames, http, stdout>>

\* signed_cookies = cfu.generate_signed_cookies(resource, expire_at): the call
M79 ==
    /\ main.pc = "L79"
    /\ Invoke(1, "generate_signed_cookies", main.resource, main.expire_at)
    /\ main' = [main EXCEPT !.pc = "L79 called"]
    /\ UNCHANGED <<env, self, ctor, http, stdout>>

\* signed_cookies = cfu.generate_signed_cookies(resource, expire_at): it is back
M79back ==
    /\ main.pc = "L79 called"
    /\ frames[1].pc \in {"returned", "raised"}
    /\ main' = IF frames[1].pc = "raised" THEN Crash(frames[1].outcome.error)
               ELSE [main EXCEPT !.pc = "L81",
                                 !.signed_cookies = frames[1].outcome.value]
    /\ UNCHANGED <<env, self, ctor, frames, http, stdout>>

\* url = ART_CLOUDFRONT_DOMAIN + '/' + path
M81 ==
    /\ main.pc = "L81"
    /\ main' = [main EXCEPT !.pc = "L82",
                  !.url = ART_CLOUDFRONT_DOMAIN \o << "/" >> \o main.path]
    /\ UNCHANGED <<env, self, ctor, frames, http, stdout>>

\* r = requests.get(url, cookies=signed_cookies)
M82 ==
    /\ main.pc = "L82"
    /\ \E resp \in Responses :
          /\ http' = Append(http, [url |-> main.url,
                                   cookies |-> main.signed_cookies])
          /\ main' = IF resp.kind = "raise" THEN Crash(resp.error)
                     ELSE [main EXCEPT !.pc = "L85", !.r = resp.value]
    /\ UNCHANGED <<env, self, ctor, frames, stdout>>

\* print('Cookies:\n'); pprint.pprint(signed_cookies)
M85 ==
    /\ main.pc = "L85"
    /\ print("cookies", main.signed_cookies)
    /\ main' = [main EXCEPT !.pc = "L89"]
    /\ UNCHANGED <<env, self, ctor, frames, http>>

\* cloudfront_signed_cookies_content = 'set $CLOUDFRONT_SIGNED_COOKIES "'
M89 ==
    /\ main.pc = "L89"
    /\ main' = [main EXCEPT !.pc = "L90", !.content = FlatHead, !.i = 1]
    /\ UNCHANGED <<env, self, ctor, frames, http, stdout>>

\* for k, v in signed_cookies.items():
\*     cloudfront_signed_cookies_content += f'{k}={v}; '
M90 ==
    /\ main.pc = "L90"
    /\ main' =
          IF main.i <= Len(main.signed_cookies)
          THEN [main EXCEPT !.i = main.i + 1,
                  !.content = main.content
                              \o main.signed_cookies[main.i].name \o << "=" >>
                              \o main.signed_cookies[main.i].value
                              \o << ";", " " >>]
          ELSE [main EXCEPT !.pc = "L92"]
    /\ UNCHANGED <<env, self, ctor, frames, http, stdout>>

\* A mutant of M92: the content is not stripped.
M92_NoStrip ==
    /\ main.pc = "L92"
    /\ main' = [main EXCEPT !.pc = "L93", !.content = main.content \o FlatTail]
    /\ UNCHANGED <<env, self, ctor, frames, http, stdout>>

\* cloudfront_signed_cookies_content =
\*     cloudfront_signed_cookies_content.strip() + '";'
M92 ==
    /\ main.pc = "L92"
    /\ main' = [main EXCEPT !.pc = "L93",
                  !.content = strip(main.content) \o FlatTail]
    /\ UNCHANGED <<env, self, ctor, frames, http, stdout>>

\* print(cloudfront_signed_cookies_content)
M93 ==
    /\ main.pc = "L93"
    /\ print("flat", main.content)
    /\ main' = [main EXCEPT !.pc = "L95"]
    /\ UNCHANGED <<env, self, ctor, frames, http>>

\* print(f'using signed cookie: {path}, {r.status_code}, {r.content}')
M95 ==
    /\ main.pc = "L95"
    /\ print("test", main.path)
    /\ main' = [main EXCEPT !.pc = "done", !.status = 0]
    /\ UNCHANGED <<env, self, ctor, frames, http>>

-----------------------------------------------------------------------------
(* The module imported: a client builds one CloudFrontUtil and its threads  *)
(* call the two methods on it.                                              *)

Construct ==
    /\ mode = "library"
    /\ \E path \in Paths, kid \in KeyIds : New(path, kid)
    /\ UNCHANGED <<env, self, frames, main, http, stdout>>

Call(t) ==
    /\ mode = "library"
    /\ \E op \in {"generate_presigned_url", "generate_signed_cookies"},
          rq \in Requests :
          Invoke(t, op, rq.url, rq.expire_at)
    /\ UNCHANGED <<env, self, ctor, main, http, stdout>>

-----------------------------------------------------------------------------
(* The specification of the program *)

Init ==
    /\ mode \in {"script", "library"}
    /\ fs = Files
    /\ ctor = NoCtor
    /\ key_id = None
    /\ rsa_signer = None
    /\ cf_signer = None
    /\ frames = [t \in Threads |-> IdleFrame]
    /\ main \in IF mode = "script"
                THEN { [NoMain EXCEPT !.pc = "L55", !.argv = a] : a \in Argvs }
                ELSE { NoMain }
    /\ http = << >>
    /\ stdout = << >>
    /\ enc_in = << >>
    /\ enc_out = [done |-> FALSE, text |-> << >>]

Next ==
    \/ Construct
    \/ Init25 \/ Init27 \/ Init31 \/ Init34
    \/ \E t \in Threads : Call(t)
    \/ \E t \in Threads : L39(t)
    \/ \E t \in Threads : L42(t)
    \/ \E t \in Threads : L43(t)
    \/ \E t \in Threads : L45(t)
    \/ \E t \in Threads : L46(t)
    \/ \E t \in Threads : L47(t)
    \/ M55 \/ M61 \/ M66 \/ M71 \/ M76 \/ M76back \/ M79 \/ M79back
    \/ M81 \/ M82 \/ M85 \/ M89 \/ M90 \/ M92 \/ M93 \/ M95

Spec == Init /\ [][Next]_vars

-----------------------------------------------------------------------------
(* The encoder by itself: Encode applied to a byte sequence *)

ApplyEncode ==
    /\ ~enc_out.done
    /\ enc_out' = [done |-> TRUE, text |-> Encode(enc_in)]
    /\ UNCHANGED <<mode, fs, ctor, key_id, rsa_signer, cf_signer, frames,
                   main, http, stdout, enc_in>>

InitEncode ==
    /\ mode = "encoder"
    /\ fs = Files
    /\ ctor = NoCtor
    /\ key_id = None
    /\ rsa_signer = None
    /\ cf_signer = None
    /\ frames = [t \in Threads |-> IdleFrame]
    /\ main = NoMain
    /\ http = << >>
    /\ stdout = << >>
    /\ enc_in \in SeqsUpTo(ByteValues, MaxLen)
    /\ enc_out = [done |-> FALSE, text |-> << >>]

NextEncode == ApplyEncode

SpecEncode == InitEncode /\ [][NextEncode]_vars

-----------------------------------------------------------------------------
(* The claims *)

Finished(t) == frames[t].pc \in {"returned", "raised"}

ReturnedFrom(t, op) == frames[t].pc = "returned" /\ frames[t].op = op

Cookies(t) == frames[t].outcome.value

Names(cookies) == { cookies[i].name : i \in DOMAIN cookies }

\* The key the constructor loaded from its private_key_path argument.
LoadedKey == fs[ctor.private_key_path].key

\* C1: whenever generate_signed_cookies returns, the mapping returned has
\* exactly three entries and its keys are exactly CloudFront-Policy,
\* CloudFront-Signature and CloudFront-Key-Pair-Id.
C1_ExactlyThreeCookies ==
    \A t \in Threads :
        ReturnedFrom(t, "generate_signed_cookies") =>
            /\ Len(Cookies(t)) = 3
            /\ Cardinality(Names(Cookies(t))) = 3
            /\ Names(Cookies(t)) =
                  {CloudFrontPolicy, CloudFrontSignature, CloudFrontKeyPairId}

C1_Witness ==
    \E t \in Threads :
        /\ ReturnedFrom(t, "generate_signed_cookies")
        /\ frames[t].url # << >>

\* C2: in every cookie set returned, the policy cookie is the encoding of the
\* policy bytes built from the call's resource and expiry, and the signature
\* cookie is the encoding of the signature over those very bytes.
C2_SignedBytesAreEncodedBytes ==
    \A t \in Threads :
        ReturnedFrom(t, "generate_signed_cookies") =>
            LET f     == frames[t]
                bytes == encode(build_policy(f.url, f.expire_at).value)
            IN  /\ f.policy = bytes
                /\ Cookies(t)[1].name = CloudFrontPolicy
                /\ Cookies(t)[1].value = Encode(bytes)
                /\ Cookies(t)[2].name = CloudFrontSignature
                /\ Cookies(t)[2].value =
                      Encode(rsa_sign(bytes, LoadedKey, "SHA-1").value)

C2_Witness ==
    \E t \in Threads :
        /\ ReturnedFrom(t, "generate_signed_cookies")
        /\ Contains(frames[t].url, "?")
        /\ frames[t].signature # << >>

\* The characters of the standard base64 encoding of the encoder's input.
Standard == decode(b64encode(enc_in))

\* C3: the encoder's output has no "+", "=" or "/"; it has "-", "_" and "~"
\* exactly where the standard base64 encoding of the same bytes has "+", "="
\* and "/"; everywhere else the two are equal.
C3_EncodeAlphabet ==
    enc_out.done =>
        LET out == enc_out.text
        IN  /\ Len(out) = Len(Standard)
            /\ \A i \in 1..Len(out) :
                  /\ out[i] \notin {"+", "=", "/"}
                  /\ (out[i] = "-") = (Standard[i] = "+")
                  /\ (out[i] = "_") = (Standard[i] = "=")
                  /\ (out[i] = "~") = (Standard[i] = "/")
                  /\ out[i] \notin {"-", "_", "~"} => out[i] = Standard[i]

C3_Witness ==
    /\ enc_out.done
    /\ Contains(enc_out.text, "-")
    /\ Contains(enc_out.text, "_")
    /\ Contains(enc_out.text, "~")
    /\ \E i \in 1..Len(enc_out.text) : enc_out.text[i] \notin {"-", "_", "~"}

\* C4, the state part: once the constructor is done, self.key_id and the
\* signer's key_id are the key_id argument, and every cookie set returned
\* carries that argument, character for character, as CloudFront-Key-Pair-Id.
C4_KeyIdState ==
    ctor.pc = "done" =>
        /\ key_id = ctor.key_id
        /\ cf_signer.key_id = ctor.key_id
        /\ \A t \in Threads :
              ReturnedFrom(t, "generate_signed_cookies") =>
                  /\ Cookies(t)[3].name = CloudFrontKeyPairId
                  /\ Cookies(t)[3].value = ctor.key_id

\* C4, the step part: no step of the program changes the stored key_id of a
\* constructed object.
C4_KeyIdStep == ctor.pc = "done" => key_id' = key_id /\ cf_signer' = cf_signer

\* C4: the key identifier given to the constructor passes unmodified into
\* self.key_id, into the CloudFrontSigner and into every cookie set, and no
\* issuance call changes it.
C4_KeyIdPassedThrough == [](C4_KeyIdState) /\ [][C4_KeyIdStep]_vars

C4_Witness ==
    \E t \in Threads :
        /\ ReturnedFrom(t, "generate_signed_cookies")
        /\ ctor.key_id = << " ", "K", "+", "/", "=", " " >>
        /\ Cookies(t)[3].value = << " ", "K", "+", "/", "=", " " >>

\* The policy bytes a call with frame f signs.
PolicyBytes(f) == encode(build_policy(f.url, f.expire_at).value)

\* The encoded signature of the policy bytes of frame f under the loaded key.
Signature64(f) == Encode(rsa_sign(PolicyBytes(f), LoadedKey, "SHA-1").value)

Separator(url) == IF Contains(url, "?") THEN << "&" >> ELSE << "?" >>

\* C5 as stated: the URL returned is the given URL followed by the
\* parameters Policy (encoded policy), Signature and Key-Pair-Id.
C5_PolicyParameterAppended ==
    \A t \in Threads :
        ReturnedFrom(t, "generate_presigned_url") =>
            LET f == frames[t]
            IN  f.outcome.value =
                   f.url \o Separator(f.url)
                   \o PolicyEq \o Encode(PolicyBytes(f)) \o << "&" >>
                   \o SignatureEq \o Signature64(f) \o << "&" >>
                   \o KeyPairIdEq \o ctor.key_id

\* C5, amended: the URL returned is the given URL followed by the parameters
\* Expires (the expiry in whole epoch seconds), Signature (the encoded
\* signature of the policy built over the URL and the expiry) and
\* Key-Pair-Id (the raw key identifier); there is no Policy parameter.
C5_CannedParametersAppended ==
    \A t \in Threads :
        ReturnedFrom(t, "generate_presigned_url") =>
            LET f == frames[t]
            IN  f.outcome.value =
                   f.url \o Separator(f.url)
                   \o ExpiresEq \o Digits(f.expire_at.epoch) \o << "&" >>
                   \o SignatureEq \o Signature64(f) \o << "&" >>
                   \o KeyPairIdEq \o ctor.key_id

C5_Witness ==
    \E t \in Threads :
        /\ ReturnedFrom(t, "generate_presigned_url")
        /\ ~Contains(frames[t].url, "?")
        /\ frames[t].url # << >>

Prefix(s, p) == Len(s) >= Len(p) /\ SubSeq(s, 1, Len(p)) = p

\* The policy naming the empty resource, for expiry dt.
EmptyResourcePolicy(dt) ==
    PolicyHead \o << "\"", "\"" >> \o PolicyMid \o Digits(dt.epoch) \o PolicyTail

InnerFailure(f) ==
    IF f.op = "generate_presigned_url" THEN
        LET r == signer_generate_presigned_url(
                    CloudFrontSigner(ctor.key_id, partial_sign(LoadedKey)),
                    f.url, f.expire_at)
        IN  IF r.kind = "raise" THEN r ELSE None
    ELSE
        LET bp == build_policy(f.url, f.expire_at)
        IN  IF bp.kind = "raise" THEN bp
            ELSE LET sg == rsa_sign(encode(bp.value), LoadedKey, "SHA-1")
                 IN  IF sg.kind = "raise" THEN sg ELSE None

\* C7: a call whose policy building or signing fails ends with that very
\* exception raised and no value; a call under way has produced nothing; a
\* call raises only what a component raised. In the script, once the call
\* has raised, the process ends with that exception and has sent no
\* request, printed nothing and holds no cookies.
C7_AllOrNothing ==
    /\ \A t \in Threads :
          LET f == frames[t]
          IN  /\ f.pc \notin {"returned", "raised"} => f.outcome = None
              /\ (Finished(t) /\ InnerFailure(f) # None) =>
                    /\ f.pc = "raised"
                    /\ f.outcome = InnerFailure(f)
                    /\ f.outcome.value = << >>
              /\ f.pc = "raised" => f.outcome = InnerFailure(f)
    /\ (mode = "script" /\ frames[1].pc = "raised") =>
          /\ main.pc \in {"L79 called", "crashed"}
          /\ main.pc = "crashed" =>
                main.error = frames[1].outcome.error /\ main.status = 1
          /\ http = << >>
          /\ stdout = << >>
          /\ main.signed_cookies = << >>
          /\ main.content = << >>

C7_Witness ==
    /\ mode = "script"
    /\ main.pc = "crashed"
    /\ frames[1].pc = "raised"
    /\ frames[1].policy_64 # << >>
    /\ main.error = "OverflowError"

\* What a call with frame f comes back with when it runs alone on the
\* object as constructed.
Alone(f) ==
    IF InnerFailure(f) # None THEN InnerFailure(f)
    ELSE IF f.op = "generate_presigned_url" THEN
        signer_generate_presigned_url(
            CloudFrontSigner(ctor.key_id, partial_sign(LoadedKey)),
            f.url, f.expire_at)
    ELSE Return(<< [name |-> CloudFrontPolicy,
                    value |-> Encode(PolicyBytes(f))],
                   [name |-> CloudFrontSignature, value |-> Signature64(f)],
                   [name |-> CloudFrontKeyPairId, value |-> ctor.key_id] >>)

\* C8, the state part: the object's fields are those the constructor set, and
\* every finished call holds what it returns when run alone on its inputs.
C8_State ==
    ctor.pc = "done" =>
        /\ key_id = ctor.key_id
        /\ rsa_signer = partial_sign(LoadedKey)
        /\ cf_signer = CloudFrontSigner(ctor.key_id, partial_sign(LoadedKey))
        /\ \A t \in Threads : Finished(t) => frames[t].outcome = Alone(frames[t])

\* C8, the step part: no step changes a field of a constructed object.
C8_Step == ctor.pc = "done" => UNCHANGED <<key_id, rsa_signer, cf_signer>>

\* C8: calls are stateless and order-independent: under every interleaving of
\* the threads' statements no field of the object changes and each call
\* returns what it returns alone.
C8_StatelessCalls == [](C8_State) /\ [][C8_Step]_vars

C8_Witness ==
    /\ frames[1].pc = "L46"
    /\ frames[2].pc = "L43"
    /\ frames[1].url # frames[2].url

\* The flat form of a three-cookie mapping: each name=value followed by ";",
\* a space between the pairs, inside the set directive's quotes.
ExpectedFlat(c) ==
    FlatHead
    \o c[1].name \o << "=" >> \o c[1].value \o << ";", " " >>
    \o c[2].name \o << "=" >> \o c[2].value \o << ";", " " >>
    \o c[3].name \o << "=" >> \o c[3].value \o << ";" >>
    \o FlatTail

\* C9: the flat form printed holds the three cookies returned by
\* generate_signed_cookies, once each and in the mapping's order, as
\* name=value with the value unchanged, "; " between consecutive pairs,
\* after 'set $CLOUDFRONT_SIGNED_COOKIES "' and before '";'.
C9_FlatForm ==
    \A i \in DOMAIN stdout :
        stdout[i].what = "flat" =>
            /\ ReturnedFrom(1, "generate_signed_cookies")
            /\ main.signed_cookies = Cookies(1)
            /\ Len(Cookies(1)) = 3
            /\ stdout[i].value = ExpectedFlat(Cookies(1))

C9_Witness ==
    \E i \in DOMAIN stdout :
        /\ stdout[i].what = "flat"
        /\ Len(main.argv) = 3

\* A guard of lines 55-69 stops the run: no key path, or no file there.
GuardFails == Len(main.argv) < 2 \/ main.argv[2] \notin DOMAIN fs

\* No key loaded, no credential issued, no request sent, no cookies printed.
NothingDone ==
    /\ ctor = NoCtor
    /\ key_id = None /\ rsa_signer = None /\ cf_signer = None
    /\ \A t \in Threads : frames[t] = IdleFrame
    /\ http = << >>
    /\ \A i \in DOMAIN stdout : stdout[i].what \in {"syntax", "no file"}

\* C10: in a run of the script whose guards fail nothing is ever done and
\* the exit status is 1; every request sent carries the mapping returned by
\* generate_signed_cookies for <domain>/* and asks for <domain>/<path>.
C10_GuardsFirst ==
    mode = "script" =>
        /\ GuardFails =>
              /\ NothingDone
              /\ main.pc \in {"L55", "L61", "L66", "exited"}
              /\ main.pc = "exited" => main.status = 1
        /\ main.pc = "exited" => GuardFails
        /\ \A i \in DOMAIN http :
              /\ ReturnedFrom(1, "generate_signed_cookies")
              /\ frames[1].url = ART_CLOUDFRONT_DOMAIN \o << "/", "*" >>
              /\ http[i].cookies = Cookies(1)
              /\ http[i].url = ART_CLOUDFRONT_DOMAIN \o << "/" >> \o main.path
              /\ Prefix(http[i].url, ART_CLOUDFRONT_DOMAIN \o << "/" >>)

C10_Witness ==
    /\ mode = "script"
    /\ main.pc = "exited"
    /\ Len(main.argv) = 3
    /\ main.status = 1
    /\ stdout # << >>

====
